---- MODULE Spec2Model ----
(***************************************************************************)
(* State-machine model of budget_tracker.py: a terminal menu over a SQLite *)
(* store with six tables.  The store is the variable db (table name ->     *)
(* set of rows); the menu loops and the identifier-prompt loops of the     *)
(* handlers are the variable pc with the counters attempts and failed.     *)
(*                                                                         *)
(* Text typed at a prompt is a sequence of one-character strings, so that  *)
(* str.title(), str.isnumeric() and SQLite's column affinity are computed  *)
(* and not assumed.  Currency amounts are floats in the program; they are  *)
(* modelled as integers (whole units), which keeps sums exact.             *)
(*                                                                         *)
(* connections is the number of sqlite3 connections that are open.         *)
(***************************************************************************)
EXTENDS Integers, Sequences, FiniteSets, TLC

VARIABLES db, sqlite_sequence, pc, attempts, failed, valid_ids, out,
          connections

vars ==
    <<db, sqlite_sequence, pc, attempts, failed, valid_ids, out, connections>>

(***************************************************************************)
(* Bounds of the model.                                                    *)
(***************************************************************************)
\* Largest id a table's AUTOINCREMENT counter may hand out.
MaxId == 2
\* Failed identifier prompts followed inside a loop that has no counter.
MaxPrompts == 4
\* Open connections are counted up to this number.
MaxConnections == 2

\* The handlers' cap on invalid identifier attempts ("if attempts >= 3").
MAX_ATTEMPTS == 3

(***************************************************************************)
(* Input alphabets.                                                        *)
(***************************************************************************)
Digits == {"0", "1", "2", "3", "4", "5", "6", "7", "8", "9"}

DigitValue ==
    ("0" :> 0) @@ ("1" :> 1) @@ ("2" :> 2) @@ ("3" :> 3) @@ ("4" :> 4) @@
    ("5" :> 5) @@ ("6" :> 6) @@ ("7" :> 7) @@ ("8" :> 8) @@ ("9" :> 9)

\* Category names and goal descriptions typed by the user.
NameInputs == {<<"a", "b">>, <<"A", "B">>, <<"A", "b">>, <<"b">>}
\* Free text typed in update_record for a field that is not an amount.
FieldTexts ==
    [category_id |-> {<<"1">>, <<"2">>, <<"x">>},
     description |-> {<<"A", "b">>, <<"a", "b">>, <<"B">>},
     target |-> {<<"2">>, <<"x">>},
     progress |-> {<<"1">>, <<"x">>}]
\* Values validate_float_input returns.
Amounts == {-1, 1, 2}
\* Values validate_int_input returns at an identifier prompt.
IdInputs == 0 .. (MaxId + 1)
\* Values validate_int_input returns at update_record's field prompt.
FieldNumbers == 0 .. 4

(***************************************************************************)
(* Text.                                                                   *)
(***************************************************************************)
IsUpper(c) == c \in {"A", "B"}
IsLower(c) == c \in {"a", "b"}
IsCased(c) == IsUpper(c) \/ IsLower(c)
Upper(c) == IF c = "a" THEN "A" ELSE IF c = "b" THEN "B" ELSE c
Lower(c) == IF c = "A" THEN "a" ELSE IF c = "B" THEN "b" ELSE c

\* str.title(): a cased character is upper-cased when it starts a word
\* (follows an uncased character or nothing) and lower-cased otherwise.
title(s) ==
    [i \in 1 .. Len(s) |->
        IF i = 1 \/ ~IsCased(s[i - 1]) THEN Upper(s[i]) ELSE Lower(s[i])]

\* The character VULGAR FRACTION ONE HALF (U+00BD), written "1/2" here: a
\* character with the Unicode property Numeric that is not a decimal digit.
NumericChars == Digits \cup {"1/2"}

\* str.isnumeric(): non-empty and every character is numeric.
isnumeric(s) == Len(s) > 0 /\ \A i \in 1 .. Len(s) : s[i] \in NumericChars

\* The strings int() converts: decimal digits only; for any other string
\* int() raises ValueError.
isdecimal(s) == Len(s) > 0 /\ \A i \in 1 .. Len(s) : s[i] \in Digits

\* int(s) for a string of digits.
RECURSIVE int(_)
int(s) ==
    IF Len(s) = 0 THEN 0
    ELSE 10 * int(SubSeq(s, 1, Len(s) - 1)) + DigitValue[s[Len(s)]]

(***************************************************************************)
(* Stored values.  A column holds an SQLite INTEGER/REAL or a TEXT; both   *)
(* are one record shape so that any two stored values can be compared.     *)
(***************************************************************************)
Num(n) == [t |-> "num", n |-> n, s |-> <<>>]
Text(s) == [t |-> "text", n |-> 0, s |-> s]
IsNum(v) == v.t = "num"

\* Column affinity applied by SQLite to a bound Python str: a column
\* declared INTEGER or REAL stores well-formed numeric text as a number
\* and keeps any other text as TEXT; a TEXT column keeps the text.
NumericColumns == {"category_id", "amount", "target", "progress"}

Affinity(field, s) ==
    IF field \in NumericColumns /\ isdecimal(s) THEN Num(int(s)) ELSE Text(s)

(***************************************************************************)
(* Schema (create_database).                                               *)
(***************************************************************************)
Tables ==
    {"expense_category", "expenses", "income_category", "income",
     "budgets", "financial_goals"}

\* FOREIGN KEY (category_id) REFERENCES parent(id) ON DELETE CASCADE,
\* as <<child, parent>>.
ForeignKeys ==
    {<<"expenses", "expense_category">>,
     <<"income", "income_category">>,
     <<"budgets", "expense_category">>}

Ids(rows) == {r.id : r \in rows}

\* sum(row.amount for row in rows) over fetched rows (amounts are numbers).
RECURSIVE SumAmount(_)
SumAmount(rows) ==
    IF rows = {} THEN 0
    ELSE LET r == CHOOSE x \in rows : TRUE
         IN  r.amount.n + SumAmount(rows \ {r})

\* Nothing worth keeping was printed by the last action.
NoReport == [op |-> "none"]

\* n times "with sqlite3.connect('finance_manager.db') as db:".  Leaving
\* the block commits (or rolls back); it does not close the connection,
\* and no function calls close().
Opened(n) ==
    connections' = IF connections + n > MaxConnections
                   THEN MaxConnections
                   ELSE connections + n

\* The interpreter's garbage collector finalises the connection objects
\* that are no longer referenced, which closes them; when it runs is not
\* under the program's control.
collect ==
    /\ connections > 0
    /\ connections' = 0
    /\ UNCHANGED <<db, sqlite_sequence, pc, attempts, failed, valid_ids, out>>

(***************************************************************************)
(* Database functions.                                                     *)
(***************************************************************************)
\* INSERT INTO table VALUES (NULL, ...): AUTOINCREMENT hands out the next
\* id after the largest one ever used in the table.
Insert(table, fields) ==
    /\ sqlite_sequence[table] < MaxId
    /\ db' = [db EXCEPT ![table] =
                 @ \cup {[id |-> sqlite_sequence[table] + 1] @@ fields}]
    /\ sqlite_sequence' = [sqlite_sequence EXCEPT ![table] = @ + 1]

\* SELECT 1 FROM table WHERE column = value
column_exists(table, column, value) ==
    \E r \in db[table] : r[column] = value

\* What add_category prints: unique_message or "added successfully".
AddCategoryReport(table, name) ==
    [op |-> "add_category", table |-> table, name |-> title(name),
     added |-> ~column_exists(table, "name", Text(title(name)))]

add_category_always(table, name) ==
    /\ Insert(table, [name |-> Text(title(name))])
    /\ out' = AddCategoryReport(table, name)
    /\ Opened(1)

\* add_category: title-case, reject a name already present, else insert.
add_category(table, name) ==
    /\ IF column_exists(table, "name", Text(title(name)))
       THEN UNCHANGED <<db, sqlite_sequence>>
       ELSE Insert(table, [name |-> Text(title(name))])
    /\ out' = AddCategoryReport(table, name)
    /\ Opened(1)

\* The connection add_record opens is counted by the handler that calls
\* it, together with the handler's own.
add_record(table, fields) == Insert(table, fields)

\* The value SQLite stores for a bound Python value: a float as it is, a
\* str through the column's affinity.
Bind(field, value) ==
    IF value.t = "text" THEN Affinity(field, value.s) ELSE value

perform_update_all_rows(table, field, new_value, record_id) ==
    /\ db' = [db EXCEPT ![table] =
                 {[r EXCEPT ![field] = Bind(field, new_value)] : r \in @}]
    /\ out' = [op |-> "perform_update", table |-> table, field |-> field,
               record_id |-> record_id]
    /\ Opened(1)
    /\ UNCHANGED sqlite_sequence

\* UPDATE table SET field = ? WHERE id = ?, and the line printed.
perform_update(table, field, new_value, record_id) ==
    /\ db' = [db EXCEPT ![table] =
                 {IF r.id = record_id
                  THEN [r EXCEPT ![field] = Bind(field, new_value)]
                  ELSE r : r \in @}]
    /\ out' = [op |-> "perform_update", table |-> table, field |-> field,
               record_id |-> record_id]
    /\ Opened(1)
    /\ UNCHANGED sqlite_sequence

CascadeOff(child, parent, record_id) == {}

CascadedWithoutParent(child, parent, record_id) ==
    IF <<child, parent>> \in ForeignKeys
    THEN {r \in db[child] : r.category_id = Num(record_id)}
    ELSE {}

\* The rows of a child table that ON DELETE CASCADE removes with parent
\* row record_id (PRAGMA foreign_keys = ON is set by delete_record).  The
\* cascade belongs to the deleted parent row: a DELETE that matches no row
\* removes nothing from any table.
Cascaded(child, parent, record_id) ==
    IF <<child, parent>> \in ForeignKeys /\ record_id \in Ids(db[parent])
    THEN {r \in db[child] : r.category_id = Num(record_id)}
    ELSE {}

delete_record_all_rows(table, record_id) ==
    /\ db' = [t \in Tables |->
                 IF t = table THEN {} ELSE db[t] \ Cascaded(t, table, record_id)]
    /\ out' = [op |-> "delete_record", table |-> table,
               record_id |-> record_id]
    /\ Opened(1)
    /\ UNCHANGED sqlite_sequence

\* DELETE FROM table WHERE id = ?, with the cascade, and the line printed.
delete_record(table, record_id) ==
    /\ db' = [t \in Tables |->
                 IF t = table
                 THEN {r \in db[t] : r.id # record_id}
                 ELSE db[t] \ Cascaded(t, table, record_id)]
    /\ out' = [op |-> "delete_record", table |-> table,
               record_id |-> record_id]
    /\ Opened(1)
    /\ UNCHANGED sqlite_sequence

fetch_all(table) == db[table]

\* SELECT t.id, c.name, t.amount FROM t JOIN c ON t.category_id = c.id
fetch_joined(table, category_table) ==
    {[id |-> p[1].id, name |-> p[2].name, amount |-> p[1].amount] :
        p \in {q \in db[table] \X db[category_table] :
                  q[1].category_id = Num(q[2].id)}}

fetch_expenses == fetch_joined("expenses", "expense_category")
fetch_income == fetch_joined("income", "income_category")

\* validate_range: the value itself when it is in the list, else None.
validate_range(value, valid_range) == value \in valid_range

(***************************************************************************)
(* Control: the menu loops and the identifier prompt of a handler.         *)
(***************************************************************************)
Menus == {"main", "expenses", "income", "budgets", "goals"}

\* The sub-menu each handler is dispatched from and returns to.
Parent ==
    [h \in {"delete_expense_category", "add_expense",
            "view_expenses_by_category", "update_expense", "delete_expense"}
        |-> "expenses"] @@
    [h \in {"delete_income_category", "add_income",
            "view_income_by_category", "update_income", "delete_income"}
        |-> "income"] @@
    [h \in {"set_category_budget", "view_category_budget",
            "update_category_budget", "delete_category_budget"}
        |-> "budgets"] @@
    [h \in {"view_goal_progress", "update_goal", "delete_goal"}
        |-> "goals"]

IdHandlers == DOMAIN Parent

\* The handler returns to the loop of its menu.
Return(menu) ==
    /\ pc' = menu
    /\ attempts' = 0
    /\ failed' = 0
    /\ valid_ids' = {}

\* The handler listed the valid identifiers (one fetch) and asks for one.
Ask(handler, ids) ==
    /\ pc' = handler
    /\ attempts' = 0
    /\ failed' = 0
    /\ valid_ids' = ids
    /\ out' = NoReport
    /\ Opened(1)
    /\ UNCHANGED <<db, sqlite_sequence>>

\* "if not valid_ids: return", else the identifier prompt.
AskUnlessEmpty(handler, ids) ==
    IF ids = {}
    THEN /\ Return(pc)
         /\ out' = NoReport
         /\ Opened(1)
         /\ UNCHANGED <<db, sqlite_sequence>>
    ELSE Ask(handler, ids)

\* An identifier out of range in a loop with the attempts counter:
\* attempts += 1, and at the top of the loop "if attempts >= 3: return".
Retry ==
    /\ IF attempts + 1 >= MAX_ATTEMPTS
       THEN Return(Parent[pc])
       ELSE /\ attempts' = attempts + 1
            /\ failed' = failed + 1
            /\ UNCHANGED <<pc, valid_ids>>
    /\ out' = NoReport
    /\ UNCHANGED <<db, sqlite_sequence, connections>>

\* An identifier out of range in a loop without a counter: ask again.
RetryForever ==
    /\ failed < MaxPrompts
    /\ failed' = failed + 1
    /\ out' = NoReport
    /\ UNCHANGED <<db, sqlite_sequence, pc, attempts, valid_ids, connections>>

\* delete_record called on its own, with any table and any identifier.
delete_record_call(table, record_id) ==
    /\ pc \in Menus \ {"main"}
    /\ delete_record(table, record_id)
    /\ UNCHANGED <<pc, attempts, failed, valid_ids>>

(***************************************************************************)
(* Reports: what a view prints, kept in out until the next action.         *)
(***************************************************************************)
\* view_expenses / view_income: the table and the total when there are
\* rows to show, the "No ... have been entered" line otherwise.
ViewAllReport(op, rows) ==
    IF rows # {}
    THEN [op |-> op, shown |-> TRUE, total |-> SumAmount(rows)]
    ELSE [op |-> op, shown |-> FALSE, total |-> 0]

AmountsInAnyCategory(table, category_id) == db[table]

\* SELECT amount FROM table WHERE category_id = ?, one amount per row.
AmountsInCategory(table, category_id) ==
    {r \in db[table] : r.category_id = Num(category_id)}

ByCategoryReport(op, table, category_id) ==
    [op |-> op, category_id |-> category_id,
     total |-> SumAmount(AmountsInCategory(table, category_id))]

(***************************************************************************)
(* Main menu and the parts common to the sub-menus.                        *)
(***************************************************************************)
MenuChoices ==
    {<<"0">>, <<"1">>, <<"2">>, <<"3">>, <<"4">>, <<"5">>, <<"9">>, <<"x">>,
     <<"1/2">>}

\* Main menu: 1..4 open a sub-menu, 0 exits, anything else asks again.
\* user_choice.isnumeric() guards int(user_choice), which raises ValueError
\* for a numeric string that is not decimal; nothing catches it.
MainMenu(user_choice) ==
    /\ pc = "main"
    /\ pc' = IF ~isnumeric(user_choice) THEN "main"
             ELSE IF ~isdecimal(user_choice) THEN "crashed"
             ELSE CASE int(user_choice) = 1 -> "expenses"
                    [] int(user_choice) = 2 -> "income"
                    [] int(user_choice) = 3 -> "budgets"
                    [] int(user_choice) = 4 -> "goals"
                    [] int(user_choice) = 0 -> "exit"
                    [] OTHER -> "main"
    /\ out' = NoReport
    /\ UNCHANGED <<db, sqlite_sequence, attempts, failed, valid_ids,
                   connections>>

\* Sub-menu: 0 returns to the main menu.
ReturnToMain ==
    /\ pc \in Menus \ {"main"}
    /\ pc' = "main"
    /\ out' = NoReport
    /\ UNCHANGED <<db, sqlite_sequence, attempts, failed, valid_ids,
                   connections>>

\* Sub-menu: non-numeric text or an unlisted number shows the menu again.
InvalidSelection ==
    /\ pc \in Menus \ {"main"}
    /\ out' = NoReport
    /\ UNCHANGED <<db, sqlite_sequence, pc, attempts, failed, valid_ids,
                   connections>>

\* Sub-menu: int(user_choice) raises ValueError, the program ends.
Raise ==
    /\ pc \in Menus \ {"main"}
    /\ pc' = "crashed"
    /\ out' = NoReport
    /\ UNCHANGED <<db, sqlite_sequence, attempts, failed, valid_ids,
                   connections>>

\* Sub-menu: one of the listings chosen on its own (view_expense_categories,
\* view_income_categories, view_all_budgets, view_current_goals).
ViewList(ids) ==
    /\ pc \in Menus \ {"main"}
    /\ out' = [op |-> "view_list", ids |-> ids]
    /\ Opened(1)
    /\ UNCHANGED <<db, sqlite_sequence, pc, attempts, failed, valid_ids>>

(***************************************************************************)
(* Menu functions: expenses.                                               *)
(***************************************************************************)
view_expense_categories == Ids(fetch_all("expense_category"))

add_expense_category(name) ==
    /\ pc = "expenses"
    /\ add_category("expense_category", title(name))
    /\ UNCHANGED <<pc, attempts, failed, valid_ids>>

\* The listing, "No valid categories available." or the first prompt.
delete_expense_category ==
    /\ pc = "expenses"
    /\ AskUnlessEmpty("delete_expense_category", view_expense_categories)

\* while True: no attempts counter in this handler.
delete_expense_category_prompt(category_id) ==
    /\ pc = "delete_expense_category"
    /\ IF validate_range(category_id, valid_ids)
       THEN /\ delete_record("expense_category", category_id)
            /\ Return("expenses")
       ELSE RetryForever

add_expense ==
    /\ pc = "expenses"
    /\ AskUnlessEmpty("add_expense", view_expense_categories)

add_expense_prompt(category_id, amounts) ==
    /\ pc = "add_expense"
    /\ IF validate_range(category_id, valid_ids)
       THEN /\ \E amount \in amounts :
                  add_record("expenses", [category_id |-> Num(category_id),
                                          amount |-> Num(amount)])
            /\ Return("expenses")
            /\ out' = NoReport
            /\ Opened(1)
       ELSE Retry

view_expenses_ids == Ids(fetch_expenses)

view_expenses ==
    /\ pc = "expenses"
    /\ out' = ViewAllReport("view_expenses", fetch_expenses)
    /\ Opened(1)
    /\ UNCHANGED <<db, sqlite_sequence, pc, attempts, failed, valid_ids>>

view_expenses_by_category ==
    /\ pc = "expenses"
    /\ AskUnlessEmpty("view_expenses_by_category", view_expense_categories)

view_expenses_by_category_prompt(category_id) ==
    /\ pc = "view_expenses_by_category"
    /\ IF validate_range(category_id, valid_ids)
       THEN /\ out' = ByCategoryReport("view_expenses_by_category",
                                       "expenses", category_id)
            /\ Return("expenses")
            /\ Opened(1)
            /\ UNCHANGED <<db, sqlite_sequence>>
       ELSE Retry

\* update_record: the field menu, the new value, perform_update.  A field
\* whose name contains "amount" takes a validated float, any other field
\* takes the text as typed.
update_record(table, record_id, fields, field_number) ==
    IF field_number - 1 < 0 \/ field_number - 1 >= Len(fields)
    THEN /\ out' = NoReport
         /\ UNCHANGED <<db, sqlite_sequence, connections>>
    ELSE LET field == fields[field_number]
         IN  IF field = "amount"
             THEN \E new_value \in Amounts :
                     perform_update(table, field, Num(new_value), record_id)
             ELSE \E new_value \in FieldTexts[field] :
                     perform_update(table, field, Text(new_value), record_id)

update_expense ==
    /\ pc = "expenses"
    /\ AskUnlessEmpty("update_expense", view_expenses_ids)

update_expense_prompt(expense_id) ==
    /\ pc = "update_expense"
    /\ IF validate_range(expense_id, valid_ids)
       THEN /\ \E field_number \in FieldNumbers :
                  update_record("expenses", expense_id,
                                <<"category_id", "amount">>, field_number)
            /\ Return("expenses")
       ELSE Retry

delete_expense ==
    /\ pc = "expenses"
    /\ AskUnlessEmpty("delete_expense", view_expenses_ids)

delete_expense_prompt(expense_id) ==
    /\ pc = "delete_expense"
    /\ IF validate_range(expense_id, valid_ids)
       THEN /\ delete_record("expenses", expense_id)
            /\ Return("expenses")
       ELSE Retry

(***************************************************************************)
(* Menu functions: income.                                                 *)
(***************************************************************************)
\* Returns the ids, or None (falsy like the empty list) when there are none.
view_income_categories == Ids(fetch_all("income_category"))

add_income_category(name) ==
    /\ pc = "income"
    /\ add_category("income_category", title(name))
    /\ UNCHANGED <<pc, attempts, failed, valid_ids>>

delete_income_category ==
    /\ pc = "income"
    /\ AskUnlessEmpty("delete_income_category", view_income_categories)

delete_income_category_prompt(category_id) ==
    /\ pc = "delete_income_category"
    /\ IF validate_range(category_id, valid_ids)
       THEN /\ delete_record("income_category", category_id)
            /\ Return("income")
       ELSE Retry

add_income ==
    /\ pc = "income"
    /\ AskUnlessEmpty("add_income", view_income_categories)

add_income_prompt(category_id, amounts) ==
    /\ pc = "add_income"
    /\ IF validate_range(category_id, valid_ids)
       THEN /\ \E amount \in amounts :
                  add_record("income", [category_id |-> Num(category_id),
                                        amount |-> Num(amount)])
            /\ Return("income")
            /\ out' = NoReport
            /\ Opened(1)
       ELSE Retry

view_income_ids == Ids(fetch_income)

view_income ==
    /\ pc = "income"
    /\ out' = ViewAllReport("view_income", fetch_income)
    /\ Opened(1)
    /\ UNCHANGED <<db, sqlite_sequence, pc, attempts, failed, valid_ids>>

view_income_by_category ==
    /\ pc = "income"
    /\ AskUnlessEmpty("view_income_by_category", view_income_categories)

view_income_by_category_prompt(category_id) ==
    /\ pc = "view_income_by_category"
    /\ IF validate_range(category_id, valid_ids)
       THEN /\ out' = ByCategoryReport("view_income_by_category",
                                       "income", category_id)
            /\ Return("income")
            /\ Opened(1)
            /\ UNCHANGED <<db, sqlite_sequence>>
       ELSE Retry

update_income ==
    /\ pc = "income"
    /\ AskUnlessEmpty("update_income", view_income_ids)

update_income_prompt(income_id) ==
    /\ pc = "update_income"
    /\ IF validate_range(income_id, valid_ids)
       THEN /\ \E field_number \in FieldNumbers :
                  update_record("income", income_id,
                                <<"category_id", "amount">>, field_number)
            /\ Return("income")
       ELSE Retry

delete_income ==
    /\ pc = "income"
    /\ AskUnlessEmpty("delete_income", view_income_ids)

delete_income_prompt(income_id) ==
    /\ pc = "delete_income"
    /\ IF validate_range(income_id, valid_ids)
       THEN /\ delete_record("income", income_id)
            /\ Return("income")
       ELSE Retry

(***************************************************************************)
(* Menu functions: budgets.                                                *)
(***************************************************************************)
\* SELECT SUM(amount) FROM table, then "or 0": SUM over no rows is NULL.
SumOrZero(table) ==
    IF db[table] = {} THEN 0 ELSE SumAmount(db[table])

ExpensesMinusIncome(total_income, total_expenses) ==
    total_expenses - total_income

\* current_budget = total_income - total_expenses
CurrentBudget(total_income, total_expenses) ==
    total_income - total_expenses

display_current_budget ==
    /\ pc = "budgets"
    /\ out' = [op |-> "display_current_budget",
               total_income |-> SumOrZero("income"),
               total_expenses |-> SumOrZero("expenses"),
               current_budget |-> CurrentBudget(SumOrZero("income"),
                                                SumOrZero("expenses"))]
    /\ Opened(1)
    /\ UNCHANGED <<db, sqlite_sequence, pc, attempts, failed, valid_ids>>

set_category_budget ==
    /\ pc = "budgets"
    /\ AskUnlessEmpty("set_category_budget", view_expense_categories)

BudgetExistsNever(category_id) == FALSE

\* SELECT 1 FROM budgets WHERE category_id = ?
BudgetExists(category_id) ==
    column_exists("budgets", "category_id", Num(category_id))

set_category_budget_prompt(category_id, amounts) ==
    /\ pc = "set_category_budget"
    /\ IF validate_range(category_id, valid_ids)
       THEN /\ \E amount \in amounts :
                  IF BudgetExists(category_id)
                  THEN /\ UNCHANGED <<db, sqlite_sequence>>
                       /\ Opened(1)
                  ELSE /\ add_record("budgets",
                                     [category_id |-> Num(category_id),
                                      amount |-> Num(amount)])
                       /\ Opened(2)
            /\ Return("budgets")
            /\ out' = [op |-> "set_category_budget",
                       category_id |-> category_id,
                       added |-> ~BudgetExists(category_id)]
       ELSE Retry

view_all_budgets == Ids(fetch_all("budgets"))

view_category_budget ==
    /\ pc = "budgets"
    /\ AskUnlessEmpty("view_category_budget", view_all_budgets)

\* SELECT budgets.amount, IFNULL(SUM(expenses.amount), 0) FROM budgets
\* LEFT JOIN expenses ON budgets.category_id = expenses.category_id
\* WHERE budgets.id = ?: the joined <<budget, expense>> pairs.
BudgetJoin(budget_id) ==
    {q \in db["budgets"] \X db["expenses"] :
        q[1].id = budget_id /\ q[1].category_id = q[2].category_id}

RECURSIVE SumJoined(_)
SumJoined(pairs) ==
    IF pairs = {} THEN 0
    ELSE LET q == CHOOSE x \in pairs : TRUE
         IN  q[2].amount.n + SumJoined(pairs \ {q})

OverOrEqual(total_spent, budget_amount) == total_spent >= budget_amount

\* if total_spent > budget_amount
Over(total_spent, budget_amount) == total_spent > budget_amount

BudgetReport(budget_id) ==
    LET cat_budget == CHOOSE b \in db["budgets"] : b.id = budget_id
        budget_amount == cat_budget.amount.n
        total_spent == SumJoined(BudgetJoin(budget_id))
    IN  [op |-> "view_category_budget", budget_id |-> budget_id,
         budget_amount |-> budget_amount, total_spent |-> total_spent,
         over |-> Over(total_spent, budget_amount),
         excess |-> total_spent - budget_amount]

view_category_budget_prompt(budget_id) ==
    /\ pc = "view_category_budget"
    /\ IF validate_range(budget_id, valid_ids)
       THEN /\ out' = BudgetReport(budget_id)
            /\ Return("budgets")
            /\ Opened(1)
            /\ UNCHANGED <<db, sqlite_sequence>>
       ELSE Retry

BudgetFieldsWithCategory == <<"category_id", "amount">>

\* update_record('budgets', budget_id, ['amount'])
BudgetFields == <<"amount">>

update_category_budget ==
    /\ pc = "budgets"
    /\ AskUnlessEmpty("update_category_budget", view_all_budgets)

update_category_budget_prompt(budget_id) ==
    /\ pc = "update_category_budget"
    /\ IF validate_range(budget_id, valid_ids)
       THEN /\ \E field_number \in FieldNumbers :
                  update_record("budgets", budget_id, BudgetFields,
                                field_number)
            /\ Return("budgets")
       ELSE Retry

\* No "if not valid_budget_ids: return" in this handler.
delete_category_budget ==
    /\ pc = "budgets"
    /\ Ask("delete_category_budget", view_all_budgets)

delete_category_budget_prompt(budget_id) ==
    /\ pc = "delete_category_budget"
    /\ IF validate_range(budget_id, valid_ids)
       THEN /\ delete_record("budgets", budget_id)
            /\ Return("budgets")
       ELSE Retry

(***************************************************************************)
(* Menu functions: goals.                                                  *)
(***************************************************************************)
GoalExists(description) ==
    column_exists("financial_goals", "description", Text(description))

set_financial_goal(description, target, progress) ==
    /\ pc = "goals"
    /\ IF ~GoalExists(title(description))
       THEN /\ add_record("financial_goals",
                          [description |-> Text(title(description)),
                           target |-> Num(target),
                           progress |-> Num(progress)])
            /\ Opened(2)
       ELSE /\ UNCHANGED <<db, sqlite_sequence>>
            /\ Opened(1)
    /\ out' = NoReport
    /\ UNCHANGED <<pc, attempts, failed, valid_ids>>

\* Returns the ids, or None (falsy like the empty list) when there are none.
view_current_goals == Ids(fetch_all("financial_goals"))

view_goal_progress ==
    /\ pc = "goals"
    /\ AskUnlessEmpty("view_goal_progress", view_current_goals)

Reached(progress, target) == progress >= target

\* The f"{target:.2f}" and f"{progress:.2f}" lines raise ValueError for a
\* str, before the comparison; nothing catches it.
GoalReport(goal_id) ==
    LET goal == CHOOSE g \in db["financial_goals"] : g.id = goal_id
    IN  IF IsNum(goal.target) /\ IsNum(goal.progress)
        THEN [op |-> "view_goal_progress", goal_id |-> goal_id,
              raised |-> FALSE,
              reached |-> Reached(goal.progress.n, goal.target.n),
              shortfall |-> goal.target.n - goal.progress.n]
        ELSE [op |-> "view_goal_progress", goal_id |-> goal_id,
              raised |-> TRUE, reached |-> FALSE, shortfall |-> 0]

view_goal_progress_prompt(goal_id) ==
    /\ pc = "view_goal_progress"
    /\ IF validate_range(goal_id, valid_ids)
       THEN /\ out' = GoalReport(goal_id)
            /\ IF GoalReport(goal_id).raised
               THEN /\ pc' = "crashed"
                    /\ UNCHANGED <<attempts, failed, valid_ids>>
               ELSE Return("goals")
            /\ Opened(1)
            /\ UNCHANGED <<db, sqlite_sequence>>
       ELSE Retry

update_goal ==
    /\ pc = "goals"
    /\ AskUnlessEmpty("update_goal", view_current_goals)

update_goal_prompt(goal_id) ==
    /\ pc = "update_goal"
    /\ IF validate_range(goal_id, valid_ids)
       THEN /\ \E field_number \in FieldNumbers :
                  update_record("financial_goals", goal_id,
                                <<"description", "target", "progress">>,
                                field_number)
            /\ Return("goals")
       ELSE Retry

delete_goal ==
    /\ pc = "goals"
    /\ AskUnlessEmpty("delete_goal", view_current_goals)

delete_goal_prompt(goal_id) ==
    /\ pc = "delete_goal"
    /\ IF validate_range(goal_id, valid_ids)
       THEN /\ delete_record("financial_goals", goal_id)
            /\ Return("goals")
       ELSE Retry

(***************************************************************************)
(* The sub-menu loops: the selection typed and the handler it starts.      *)
(***************************************************************************)
ManageExpenses(user_choice) ==
    /\ pc = "expenses"
    /\ IF ~isnumeric(user_choice) THEN InvalidSelection
       ELSE IF ~isdecimal(user_choice) THEN Raise
       ELSE CASE int(user_choice) = 1 ->
                    \E name \in NameInputs : add_expense_category(name)
              [] int(user_choice) = 2 -> delete_expense_category
              [] int(user_choice) = 3 -> add_expense
              [] int(user_choice) = 4 -> view_expenses
              [] int(user_choice) = 5 -> ViewList(view_expense_categories)
              [] int(user_choice) = 6 -> view_expenses_by_category
              [] int(user_choice) = 7 -> update_expense
              [] int(user_choice) = 8 -> delete_expense
              [] int(user_choice) = 0 -> ReturnToMain
              [] OTHER -> InvalidSelection

ManageIncome(user_choice) ==
    /\ pc = "income"
    /\ IF ~isnumeric(user_choice) THEN InvalidSelection
       ELSE IF ~isdecimal(user_choice) THEN Raise
       ELSE CASE int(user_choice) = 1 ->
                    \E name \in NameInputs : add_income_category(name)
              [] int(user_choice) = 2 -> delete_income_category
              [] int(user_choice) = 3 -> add_income
              [] int(user_choice) = 4 -> view_income
              [] int(user_choice) = 5 -> ViewList(view_income_categories)
              [] int(user_choice) = 6 -> view_income_by_category
              [] int(user_choice) = 7 -> update_income
              [] int(user_choice) = 8 -> delete_income
              [] int(user_choice) = 0 -> ReturnToMain
              [] OTHER -> InvalidSelection

ManageBudgets(user_choice) ==
    /\ pc = "budgets"
    /\ IF ~isnumeric(user_choice) THEN InvalidSelection
       ELSE IF ~isdecimal(user_choice) THEN Raise
       ELSE CASE int(user_choice) = 1 -> display_current_budget
              [] int(user_choice) = 2 -> set_category_budget
              [] int(user_choice) = 3 -> ViewList(view_all_budgets)
              [] int(user_choice) = 4 -> view_category_budget
              [] int(user_choice) = 5 -> update_category_budget
              [] int(user_choice) = 6 -> delete_category_budget
              [] int(user_choice) = 0 -> ReturnToMain
              [] OTHER -> InvalidSelection

ManageGoals(user_choice) ==
    /\ pc = "goals"
    /\ IF ~isnumeric(user_choice) THEN InvalidSelection
       ELSE IF ~isdecimal(user_choice) THEN Raise
       ELSE CASE int(user_choice) = 1 ->
                    \E d \in NameInputs, t \in Amounts, p \in Amounts :
                        set_financial_goal(d, t, p)
              [] int(user_choice) = 2 -> ViewList(view_current_goals)
              [] int(user_choice) = 3 -> view_goal_progress
              [] int(user_choice) = 4 -> update_goal
              [] int(user_choice) = 5 -> delete_goal
              [] int(user_choice) = 0 -> ReturnToMain
              [] OTHER -> InvalidSelection

(***************************************************************************)
(* Specifications.  create_database leaves every table empty on first run. *)
(***************************************************************************)
\* The program at the prompt of one of the given menus, nothing stored yet;
\* create_database has opened its connection.
InitAt(menus) ==
    /\ db = [t \in Tables |-> {}]
    /\ sqlite_sequence = [t \in Tables |-> 0]
    /\ pc \in menus
    /\ attempts = 0
    /\ failed = 0
    /\ valid_ids = {}
    /\ out = NoReport
    /\ connections = 1

Init == InitAt({"main"})

Navigation(choices) ==
    \/ \E user_choice \in choices : MainMenu(user_choice)
    \/ ReturnToMain
    \/ InvalidSelection

ExpenseMenu ==
    \/ \E name \in NameInputs : add_expense_category(name)
    \/ delete_expense_category
    \/ \E i \in IdInputs : delete_expense_category_prompt(i)
    \/ add_expense
    \/ \E i \in IdInputs : add_expense_prompt(i, Amounts)
    \/ view_expenses
    \/ view_expenses_by_category
    \/ \E i \in IdInputs : view_expenses_by_category_prompt(i)
    \/ update_expense
    \/ \E i \in IdInputs : update_expense_prompt(i)
    \/ delete_expense
    \/ \E i \in IdInputs : delete_expense_prompt(i)

\* The user works in the expenses menu only.
NextExpenses == Navigation({<<"1">>, <<"9">>, <<"x">>}) \/ ExpenseMenu

SpecExpenses == Init /\ [][NextExpenses]_vars

IncomeMenu ==
    \/ \E name \in NameInputs : add_income_category(name)
    \/ delete_income_category
    \/ \E i \in IdInputs : delete_income_category_prompt(i)
    \/ add_income
    \/ \E i \in IdInputs : add_income_prompt(i, Amounts)
    \/ view_income
    \/ view_income_by_category
    \/ \E i \in IdInputs : view_income_by_category_prompt(i)
    \/ update_income
    \/ \E i \in IdInputs : update_income_prompt(i)
    \/ delete_income
    \/ \E i \in IdInputs : delete_income_prompt(i)

BudgetMenu ==
    \/ display_current_budget
    \/ set_category_budget
    \/ \E i \in IdInputs : set_category_budget_prompt(i, Amounts)
    \/ view_category_budget
    \/ \E i \in IdInputs : view_category_budget_prompt(i)
    \/ update_category_budget
    \/ \E i \in IdInputs : update_category_budget_prompt(i)
    \/ delete_category_budget
    \/ \E i \in IdInputs : delete_category_budget_prompt(i)

GoalMenu ==
    \/ \E d \in NameInputs, t \in Amounts, p \in Amounts :
          set_financial_goal(d, t, p)
    \/ view_goal_progress
    \/ \E i \in IdInputs : view_goal_progress_prompt(i)
    \/ update_goal
    \/ \E i \in IdInputs : update_goal_prompt(i)
    \/ delete_goal
    \/ \E i \in IdInputs : delete_goal_prompt(i)

\* The user works in the income menu only.
NextIncome == Navigation({<<"2">>, <<"9">>, <<"x">>}) \/ IncomeMenu

SpecIncome == Init /\ [][NextIncome]_vars

\* The user works in the goals menu only; new goals get targets and
\* progress of 1 or 2.
NextGoals ==
    \/ Navigation({<<"4">>, <<"9">>, <<"x">>})
    \/ \E d \in NameInputs, t \in {1, 2}, p \in {1, 2} :
          set_financial_goal(d, t, p)
    \/ view_goal_progress
    \/ \E i \in IdInputs : view_goal_progress_prompt(i)
    \/ update_goal
    \/ \E i \in IdInputs : update_goal_prompt(i)
    \/ delete_goal
    \/ \E i \in IdInputs : delete_goal_prompt(i)

SpecGoals == Init /\ [][NextGoals]_vars

\* The whole program.
Next ==
    \/ Navigation(MenuChoices)
    \/ ExpenseMenu
    \/ IncomeMenu
    \/ BudgetMenu
    \/ GoalMenu
    \/ collect

Spec == Init /\ [][Next]_vars

\* The user adds and deletes categories of both kinds.
NextCategories ==
    \/ Navigation({<<"1">>, <<"2">>, <<"x">>})
    \/ \E name \in NameInputs : add_expense_category(name)
    \/ delete_expense_category
    \/ \E i \in IdInputs : delete_expense_category_prompt(i)
    \/ \E name \in NameInputs : add_income_category(name)
    \/ delete_income_category
    \/ \E i \in IdInputs : delete_income_category_prompt(i)

SpecCategories == Init /\ [][NextCategories]_vars

\* The user stays in the expenses menu or in the income menu.
NextTransactions == ExpenseMenu \/ IncomeMenu

SpecTransactions == InitAt({"expenses", "income"}) /\ [][NextTransactions]_vars

\* The user adds categories, transactions and budgets and deletes
\* categories, either in the expenses and budgets menus or in the income
\* menu; every amount typed is 1.
NextCascade ==
    \/ \E user_choice \in {<<"1">>, <<"3">>} : MainMenu(user_choice)
    \/ pc \in {"expenses", "budgets"} /\ ReturnToMain
    \/ \E name \in NameInputs : add_expense_category(name)
    \/ delete_expense_category
    \/ \E i \in IdInputs : delete_expense_category_prompt(i)
    \/ add_expense
    \/ \E i \in IdInputs : add_expense_prompt(i, {1})
    \/ set_category_budget
    \/ \E i \in IdInputs : set_category_budget_prompt(i, {1})
    \/ \E name \in NameInputs : add_income_category(name)
    \/ delete_income_category
    \/ \E i \in IdInputs : delete_income_category_prompt(i)
    \/ add_income
    \/ \E i \in IdInputs : add_income_prompt(i, {1})

SpecCascade == InitAt({"main", "income"}) /\ [][NextCascade]_vars

\* The user adds expense categories and expenses and works in the budgets
\* menu.
NextBudgets ==
    \/ \E user_choice \in {<<"1">>, <<"3">>} : MainMenu(user_choice)
    \/ ReturnToMain
    \/ \E name \in NameInputs : add_expense_category(name)
    \/ add_expense
    \/ \E i \in IdInputs : add_expense_prompt(i, Amounts)
    \/ BudgetMenu

SpecBudgets == Init /\ [][NextBudgets]_vars

\* The user adds and deletes expense categories and works in the budgets
\* menu.
NextCategoryBudgets ==
    \/ \E user_choice \in {<<"1">>, <<"3">>} : MainMenu(user_choice)
    \/ ReturnToMain
    \/ \E name \in NameInputs : add_expense_category(name)
    \/ delete_expense_category
    \/ \E i \in IdInputs : delete_expense_category_prompt(i)
    \/ BudgetMenu

SpecCategoryBudgets == Init /\ [][NextCategoryBudgets]_vars

\* The user keeps one category of each kind, adds transactions to them
\* and displays the overall budget.
NextOverall ==
    \/ \E user_choice \in {<<"1">>, <<"2">>, <<"3">>} : MainMenu(user_choice)
    \/ ReturnToMain
    \/ add_expense_category(<<"a", "b">>)
    \/ add_expense
    \/ \E i \in IdInputs : add_expense_prompt(i, Amounts)
    \/ add_income_category(<<"b">>)
    \/ add_income
    \/ \E i \in IdInputs : add_income_prompt(i, Amounts)
    \/ display_current_budget

SpecOverall == Init /\ [][NextOverall]_vars

\* The user keeps one expense category, adds expenses and updates them,
\* and delete_record is called with any identifier, stored or not.
NextDeleteRecord ==
    \/ add_expense_category(<<"b">>)
    \/ add_expense
    \/ \E i \in IdInputs : add_expense_prompt(i, {1})
    \/ update_expense
    \/ \E i \in IdInputs : update_expense_prompt(i)
    \/ \E t \in {"expense_category", "expenses", "budgets"}, i \in IdInputs :
          delete_record_call(t, i)

SpecDeleteRecord == InitAt({"expenses"}) /\ [][NextDeleteRecord]_vars

\* The user adds expense categories, expenses and budgets and deletes
\* budgets, with names and identifiers that are accepted, rejected or
\* abandoned; the garbage collector runs at any time.
NextConnections ==
    \/ \E user_choice \in {<<"1">>, <<"3">>, <<"x">>} : MainMenu(user_choice)
    \/ ReturnToMain
    \/ InvalidSelection
    \/ collect
    \/ \E name \in {<<"a", "b">>, <<"b">>} : add_expense_category(name)
    \/ add_expense
    \/ \E i \in IdInputs : add_expense_prompt(i, {1})
    \/ view_expenses
    \/ set_category_budget
    \/ \E i \in IdInputs : set_category_budget_prompt(i, {1})
    \/ delete_category_budget
    \/ \E i \in IdInputs : delete_category_budget_prompt(i)

SpecConnections == Init /\ [][NextConnections]_vars

\* The user moves between all the menus; in a sub-menu the selections
\* typed are 0, 1, 5, an unlisted number, a letter and the character 1/2.
SubMenuChoices == {<<"0">>, <<"1">>, <<"5">>, <<"9">>, <<"x">>, <<"1/2">>}

NextNavigation ==
    \/ \E user_choice \in MenuChoices : MainMenu(user_choice)
    \/ \E user_choice \in SubMenuChoices : ManageExpenses(user_choice)
    \/ \E user_choice \in SubMenuChoices : ManageIncome(user_choice)
    \/ \E user_choice \in SubMenuChoices : ManageBudgets(user_choice)
    \/ \E user_choice \in SubMenuChoices : ManageGoals(user_choice)
    \/ \E i \in IdInputs : delete_goal_prompt(i)

SpecNavigation == Init /\ [][NextNavigation]_vars

\* The user adds records of every kind and updates them: expenses and
\* budgets, or income, or goals.  Every amount typed when adding is 1.
NextUpdates ==
    \/ \E user_choice \in {<<"1">>, <<"3">>} : MainMenu(user_choice)
    \/ pc \in {"expenses", "budgets"} /\ ReturnToMain
    \/ add_expense_category(<<"b">>)
    \/ add_expense
    \/ \E i \in IdInputs : add_expense_prompt(i, {1})
    \/ update_expense
    \/ \E i \in IdInputs : update_expense_prompt(i)
    \/ set_category_budget
    \/ \E i \in IdInputs : set_category_budget_prompt(i, {1})
    \/ update_category_budget
    \/ \E i \in IdInputs : update_category_budget_prompt(i)
    \/ add_income_category(<<"b">>)
    \/ add_income
    \/ \E i \in IdInputs : add_income_prompt(i, {1})
    \/ update_income
    \/ \E i \in IdInputs : update_income_prompt(i)
    \/ \E d \in {<<"a", "b">>, <<"b">>} : set_financial_goal(d, 1, 1)
    \/ update_goal
    \/ \E i \in IdInputs : update_goal_prompt(i)

SpecUpdates == InitAt({"main", "income", "goals"}) /\ [][NextUpdates]_vars

\* The user adds records of every kind and deletes single records:
\* expenses and budgets, or income, or goals.  Every amount typed is 1.
NextDeletes ==
    \/ \E user_choice \in {<<"1">>, <<"3">>} : MainMenu(user_choice)
    \/ pc \in {"expenses", "budgets"} /\ ReturnToMain
    \/ \E name \in {<<"a", "b">>, <<"b">>} : add_expense_category(name)
    \/ add_expense
    \/ \E i \in IdInputs : add_expense_prompt(i, {1})
    \/ delete_expense
    \/ \E i \in IdInputs : delete_expense_prompt(i)
    \/ set_category_budget
    \/ \E i \in IdInputs : set_category_budget_prompt(i, {1})
    \/ delete_category_budget
    \/ \E i \in IdInputs : delete_category_budget_prompt(i)
    \/ add_income_category(<<"b">>)
    \/ add_income
    \/ \E i \in IdInputs : add_income_prompt(i, {1})
    \/ delete_income
    \/ \E i \in IdInputs : delete_income_prompt(i)
    \/ \E d \in {<<"a", "b">>, <<"b">>} : set_financial_goal(d, 1, 1)
    \/ delete_goal
    \/ \E i \in IdInputs : delete_goal_prompt(i)

SpecDeletes == InitAt({"main", "income", "goals"}) /\ [][NextDeletes]_vars

(***************************************************************************)
(* Properties.                                                             *)
(***************************************************************************)
CategoryTables == {"expense_category", "income_category"}

EqualIgnoringCase(a, b) ==
    /\ Len(a) = Len(b)
    /\ \A i \in 1 .. Len(a) : Lower(a[i]) = Lower(b[i])

\* C1: in each category table no two rows have the same name, not even
\* names that differ only in letter case (names equal after title-casing);
\* and adding a name whose title-cased form is already stored changes
\* nothing in the store.
C1_NoDuplicateNames ==
    \A t \in CategoryTables : \A r1, r2 \in db[t] :
        EqualIgnoringCase(r1.name.s, r2.name.s) => r1 = r2

C1_SecondAddIsNoOp ==
    \A name \in NameInputs :
        /\ (add_expense_category(name)
              /\ \E r \in db["expense_category"] :
                    EqualIgnoringCase(r.name.s, name))
           => UNCHANGED <<db, sqlite_sequence>>
        /\ (add_income_category(name)
              /\ \E r \in db["income_category"] :
                    EqualIgnoringCase(r.name.s, name))
           => UNCHANGED <<db, sqlite_sequence>>

C1_UniqueCategoryNames ==
    [][C1_NoDuplicateNames' /\ C1_SecondAddIsNoOp]_vars

\* C1 witness: a second add of a stored name was rejected in each table,
\* which holds that name once.
C1_Witness ==
    /\ out.op = "add_category"
    /\ ~out.added
    /\ out.table = "income_category"
    /\ Cardinality({r \in db[out.table] : r.name = Text(out.name)}) = 1
    /\ Cardinality(db["expense_category"]) = 2

\* The sum of the amounts of a set of rows, taken row id by row id.
RECURSIVE TotalUpTo(_, _)
TotalUpTo(rows, n) ==
    IF n = 0 THEN 0
    ELSE TotalUpTo(rows, n - 1) +
         (IF \E r \in rows : r.id = n
          THEN (CHOOSE r \in rows : r.id = n).amount.n
          ELSE 0)

Total(rows) == TotalUpTo(rows, MaxId)

\* C2: a step that deletes category c removes exactly the rows that
\* reference c from the dependent tables (expenses and budgets for an
\* expense category, income for an income category); rows of other
\* categories, and every other table, stay as they were.
C2_Dependents ==
    [expense_category |-> {"expenses", "budgets"},
     income_category |-> {"income"}]

C2_DeleteStep ==
    \A parent \in CategoryTables :
        \A c \in Ids(db[parent]) \ Ids(db'[parent]) :
            /\ db'[parent] = {r \in db[parent] : r.id # c}
            /\ \A child \in C2_Dependents[parent] :
                  /\ \A r \in db'[child] : r.category_id # Num(c)
                  /\ db'[child] = {r \in db[child] : r.category_id # Num(c)}
            /\ \A t \in Tables \ (C2_Dependents[parent] \cup {parent}) :
                  db'[t] = db[t]

C2_CascadeDelete == [][C2_DeleteStep]_vars

\* C2 witness: an expense category was just deleted and took one expense
\* and one budget with it, while the other category's expense and budget
\* are still stored.
C2_Witness ==
    /\ out.op = "delete_record"
    /\ out.table = "expense_category"
    /\ sqlite_sequence["expenses"] = 2
    /\ Cardinality(db["expenses"]) = 1
    /\ sqlite_sequence["budgets"] = 2
    /\ Cardinality(db["budgets"]) = 1
    /\ Cardinality(db["expense_category"]) = 1

\* C3: no expense category has two budgets, and set_category_budget for a
\* category that already has a budget leaves the store as it was.
C3_AtMostOneBudget ==
    \A b1, b2 \in db["budgets"] :
        b1.category_id = b2.category_id => b1 = b2

C3_SecondBudgetIsNoOp ==
    \A i \in IdInputs :
        (/\ set_category_budget_prompt(i, Amounts)
         /\ i \in valid_ids
         /\ \E b \in db["budgets"] : b.category_id = Num(i))
        => UNCHANGED <<db, sqlite_sequence>>

C3_OneBudgetPerCategory ==
    [][C3_AtMostOneBudget' /\ C3_SecondBudgetIsNoOp]_vars

\* C3 witness: a second budget for a category was just rejected and the
\* category still has its one budget.
C3_Witness ==
    /\ out.op = "set_category_budget"
    /\ ~out.added
    /\ Cardinality({b \in db["budgets"] :
                       b.category_id = Num(out.category_id)}) = 1

\* C4: view_category_budget reports the budget's amount B, the sum S of
\* the amounts of all expense rows of the budget's category (0 without
\* any), "over budget" exactly when S > B, and then the excess S - B.
C4_BudgetVariance ==
    out.op = "view_category_budget" =>
        \E b \in db["budgets"] :
            /\ b.id = out.budget_id
            /\ LET B == b.amount.n
                   S == Total({e \in db["expenses"] :
                                  e.category_id = b.category_id})
               IN  /\ out.budget_amount = B
                   /\ out.total_spent = S
                   /\ out.over <=> S > B
                   /\ out.over => out.excess = S - B

\* C4 witness: a budget of 1 was viewed with 2 spent in its category, and
\* an expense of another category is stored and not counted.
C4_Witness ==
    /\ out.op = "view_category_budget"
    /\ out.over
    /\ out.total_spent = 2
    /\ out.excess = 1
    /\ \E b \in db["budgets"], e \in db["expenses"] :
          b.id = out.budget_id /\ e.category_id # b.category_id

\* C5: for every stored goal, view_goal_progress reports "target reached"
\* exactly when progress >= target, and the shortfall target - progress
\* otherwise.
C5_GoalShortfall ==
    out.op = "view_goal_progress" =>
        \E g \in db["financial_goals"] :
            /\ g.id = out.goal_id
            /\ ~out.raised
            /\ IsNum(g.target) /\ IsNum(g.progress)
            /\ out.reached <=> g.progress.n >= g.target.n
            /\ ~out.reached => out.shortfall = g.target.n - g.progress.n

\* C6: the total view_income reports is the sum of the amounts of all
\* income rows (0 for none), and the same for view_expenses and the
\* expense rows.
C6_ViewAllTotals ==
    /\ out.op = "view_income" => out.total = Total(db["income"])
    /\ out.op = "view_expenses" => out.total = Total(db["expenses"])

\* C7: for a valid category c the by-category views report the sum of the
\* amounts of exactly the rows whose category_id is c.
C7_ByCategoryTotal ==
    /\ out.op = "view_expenses_by_category" =>
          out.total = Total({e \in db["expenses"] :
                                IsNum(e.category_id)
                                /\ e.category_id.n = out.category_id})
    /\ out.op = "view_income_by_category" =>
          out.total = Total({e \in db["income"] :
                                IsNum(e.category_id)
                                /\ e.category_id.n = out.category_id})

\* C7 witness: expenses of 1 and 2 in one category are reported as 3.
C7_Witness ==
    /\ out.op = "view_expenses_by_category"
    /\ out.total = 3
    /\ \A e \in db["expenses"] : e.category_id = Num(out.category_id)

\* C8: display_current_budget reports the sum of all income amounts, the
\* sum of all expense amounts and their difference, and changes no table.
C8_Report ==
    out.op = "display_current_budget" =>
        /\ out.total_income = Total(db["income"])
        /\ out.total_expenses = Total(db["expenses"])
        /\ out.current_budget = Total(db["income"]) - Total(db["expenses"])

C8_DisplayStep ==
    out'.op = "display_current_budget" =>
        UNCHANGED <<db, sqlite_sequence>>

C8_OverallBudget == [][C8_Report' /\ C8_DisplayStep]_vars

\* C8 witness: income 3, expenses 1, overall budget 2.
C8_Witness ==
    /\ out.op = "display_current_budget"
    /\ out.total_income = 3
    /\ out.total_expenses = 1
    /\ out.current_budget = 2

\* C9: no handler asks for an identifier again after 3 prompts that
\* failed the range check.
C9_BoundedRetries == pc \in IdHandlers => failed < MAX_ATTEMPTS

\* C10: no two stored goals have the same description.
C10_UniqueDescriptions ==
    \A g1, g2 \in db["financial_goals"] :
        g1.description = g2.description => g1 = g2

\* C11: delete_record with an identifier that the target table does not
\* hold changes no table (no row of the table, and no row of a table that
\* references it), and the call returns to the menu it was made from.
C11_AbsentStep ==
    (/\ out'.op = "delete_record"
     /\ out'.record_id \notin Ids(db[out'.table])
     /\ delete_record_call(out'.table, out'.record_id))
    => (db' = db /\ sqlite_sequence' = sqlite_sequence /\ pc' = pc)

C11_DeleteAbsentIsNoOp == [][C11_AbsentStep]_vars

\* C11 witness: delete_record was called on expense_category with an
\* identifier the table never handed out, while an expense row carrying
\* that identifier as its category_id is stored, and the row is still there.
C11_Witness ==
    /\ out.op = "delete_record"
    /\ out.table = "expense_category"
    /\ out.record_id > sqlite_sequence["expense_category"]
    /\ \E e \in db["expenses"] : e.category_id = Num(out.record_id)

\* C12: at every menu prompt no connection is open: each operation has
\* closed every connection it opened by the time it returns to the menu.
C12_NoOpenConnections == pc \in Menus => connections = 0

\* The selections each menu lists.
Listed ==
    [main |-> 0 .. 4, expenses |-> 0 .. 8, income |-> 0 .. 8,
     budgets |-> 0 .. 6, goals |-> 0 .. 5]

\* The number a typed selection stands for, -1 when it is not a number a
\* menu could list.
C13_Selected(c) ==
    IF Len(c) = 1 /\ c[1] \in Digits THEN DigitValue[c[1]] ELSE -1

C13_Select(c) ==
    \/ MainMenu(c)
    \/ ManageExpenses(c)
    \/ ManageIncome(c)
    \/ ManageBudgets(c)
    \/ ManageGoals(c)

C13_Step ==
    /\ \A c \in MenuChoices :
          C13_Select(c) =>
              /\ (pc # "main" /\ C13_Selected(c) = 0) => pc' = "main"
              /\ C13_Selected(c) \notin Listed[pc] =>
                    /\ pc' = pc
                    /\ db' = db
                    /\ sqlite_sequence' = sqlite_sequence
    /\ (pc \notin {"exit", "crashed"} /\ pc' \in {"exit", "crashed"}) =>
          /\ pc = "main"
          /\ \E c \in MenuChoices : MainMenu(c) /\ C13_Selected(c) = 0

\* C13: 0 typed in a sub-menu leads to the main menu prompt; a selection
\* that a menu does not list (an unlisted number or text that is not a
\* number) shows the same menu again and leaves the store as it was; and
\* the program ends only by 0 typed at the main menu.
C13_MenuNavigation == [][C13_Step]_vars

\* C14: the category_id of every expenses row is the id of a stored
\* expense category, and the category_id of every income row is the id of
\* a stored income category.
C14_TransactionsHaveCategory ==
    /\ \A e \in db["expenses"] :
          \E c \in db["expense_category"] : e.category_id = Num(c.id)
    /\ \A e \in db["income"] :
          \E c \in db["income_category"] : e.category_id = Num(c.id)

\* C15: the category_id of every budgets row is the id of a stored
\* expense category; no step changes the category_id of a budget that
\* stays stored; and update_category_budget keeps the ids and the
\* category_ids of all budgets, so only an amount can change.
C15_BudgetsHaveCategory ==
    \A b \in db["budgets"] :
        \E c \in db["expense_category"] : b.category_id = Num(c.id)

C15_KeepsCategory ==
    \A b1 \in db["budgets"], b2 \in db'["budgets"] :
        b1.id = b2.id => b1.category_id = b2.category_id

C15_UpdateStep ==
    \A i \in IdInputs :
        update_category_budget_prompt(i) =>
            {[id |-> b.id, category_id |-> b.category_id] :
                b \in db'["budgets"]}
            = {[id |-> b.id, category_id |-> b.category_id] :
                b \in db["budgets"]}

C15_BudgetCategoryFixed ==
    [][C15_BudgetsHaveCategory' /\ C15_KeepsCategory /\ C15_UpdateStep]_vars

\* C15 witness: the amount of a budget was just updated to -1, a value it
\* can also be set to, and both budgets still name a stored category each.
C15_Witness ==
    /\ out.op = "perform_update"
    /\ out.table = "budgets"
    /\ Cardinality(db["budgets"]) = 2
    /\ \E b \in db["budgets"] : b.id = out.record_id /\ b.amount = Num(-1)
    /\ C15_BudgetsHaveCategory

\* The table each update handler works on and the fields it offers.
C16_Table ==
    [update_expense |-> "expenses", update_income |-> "income",
     update_category_budget |-> "budgets", update_goal |-> "financial_goals"]

C16_Fields ==
    [update_expense |-> {"category_id", "amount"},
     update_income |-> {"category_id", "amount"},
     update_category_budget |-> {"amount"},
     update_goal |-> {"description", "target", "progress"}]

\* The fields in which two rows differ.
C16_Changed(r1, r2) == {f \in DOMAIN r1 : r1[f] # r2[f]}

C16_UpdateStep ==
    pc \in DOMAIN C16_Table =>
        LET table == C16_Table[pc]
            changed == {r \in db[table] : r \notin db'[table]}
        IN  /\ \A t \in Tables \ {table} : db'[t] = db[t]
            /\ Ids(db'[table]) = Ids(db[table])
            /\ Cardinality(db'[table]) = Cardinality(db[table])
            /\ Cardinality(changed) <= 1
            /\ \A r1 \in changed, r2 \in db'[table] :
                  r1.id = r2.id =>
                      /\ Cardinality(C16_Changed(r1, r2)) = 1
                      /\ C16_Changed(r1, r2) \subseteq C16_Fields[pc]
                      /\ out'.op = "perform_update"
                      /\ C16_Changed(r1, r2) = {out'.field}
                      /\ r1.id = out'.record_id
            /\ out'.op # "perform_update" => db' = db

\* C16: a step of an update handler changes at most one record of the
\* handler's table, in exactly one field, which is one of the fields the
\* handler offers and the one the user chose; every other record and
\* every other table stay as they were; and when the field number typed
\* is not one of the offered ones (nothing is reported as updated) the
\* store is unchanged.
C16_SingleFieldUpdate == [][C16_UpdateStep]_vars

\* C16 witness: of two goals set with target 1 and progress 1, one has
\* just had its target updated to the text x; its progress and the other
\* goal are as they were set.
C16_Witness ==
    /\ out.op = "perform_update"
    /\ out.table = "financial_goals"
    /\ out.field = "target"
    /\ Cardinality(db["financial_goals"]) = 2
    /\ \A g \in db["financial_goals"] :
          /\ g.progress = Num(1)
          /\ g.target = (IF g.id = out.record_id
                          THEN Text(<<"x">>) ELSE Num(1))

\* The table each single-record delete handler works on.
C17_Table ==
    [delete_expense |-> "expenses", delete_income |-> "income",
     delete_category_budget |-> "budgets", delete_goal |-> "financial_goals"]

C17_Prompt(i) ==
    \/ delete_expense_prompt(i)
    \/ delete_income_prompt(i)
    \/ delete_category_budget_prompt(i)
    \/ delete_goal_prompt(i)

C17_DeleteStep ==
    \A i \in IdInputs :
        C17_Prompt(i) =>
            /\ \A t \in Tables \ {C17_Table[pc]} : db'[t] = db[t]
            /\ i \in valid_ids =>
                  /\ i \in Ids(db[C17_Table[pc]])
                  /\ db'[C17_Table[pc]] =
                        {r \in db[C17_Table[pc]] : r.id # i}
            /\ i \notin valid_ids => db' = db

\* C17: delete_expense, delete_income, delete_category_budget and
\* delete_goal on a listed identifier i remove the row with id i from
\* their table and nothing else: the other rows of the table, the
\* categories and every other table are unchanged.
C17_SingleRowDelete == [][C17_DeleteStep]_vars

\* C17 witness: one of two expenses of a category was just deleted; the
\* other expense, the category and its budget are still stored.
C17_Witness ==
    /\ out.op = "delete_record"
    /\ out.table = "expenses"
    /\ sqlite_sequence["expenses"] = 2
    /\ \E e \in db["expenses"], c \in db["expense_category"],
          b \in db["budgets"] :
          /\ db["expenses"] = {e}
          /\ e.id # out.record_id
          /\ e.category_id = Num(c.id)
          /\ b.category_id = Num(c.id)

\* C18: no handler is at its identifier prompt with an empty list of
\* valid identifiers: a handler that finds nothing to choose from returns
\* to its menu without asking.
C18_NoPromptWithoutIds == pc \in IdHandlers => valid_ids # {}

\* C19: the target and the progress of every stored goal are numbers,
\* never text, and view_goal_progress never fails.
C19_NumericGoals ==
    /\ \A g \in db["financial_goals"] : IsNum(g.target) /\ IsNum(g.progress)
    /\ pc # "crashed"

====
